---------------------------- MODULE Spec2Model ----------------------------
(***************************************************************************)
(* MedPlant: the training dataset MedicinalPlantDataset of                 *)
(* backend/ai_model/train_model.py.  Text is a sequence of one-character   *)
(* strings, so that the name normalizer, the word splits and the substring *)
(* tests of the resolver act on characters as the Python code does.        *)
(***************************************************************************)
EXTENDS Integers, Sequences, FiniteSets, TLC

(***************************************************************************)
(* Characters                                                              *)
(***************************************************************************)
LowerLetters ==
  << "a","b","c","d","e","f","g","h","i","j","k","l","m",
     "n","o","p","q","r","s","t","u","v","w","x","y","z" >>

UpperLetters ==
  << "A","B","C","D","E","F","G","H","I","J","K","L","M",
     "N","O","P","Q","R","S","T","U","V","W","X","Y","Z" >>

Digits == << "0","1","2","3","4","5","6","7","8","9" >>

\* The characters of the model in code-point order (Python compares str by code point).
Ascii ==
  << " ", "(", ")", "-", ".", "/" >> \o Digits \o UpperLetters \o << "_" >> \o LowerLetters

Range(s) == { s[i] : i \in DOMAIN s }

OrdTable == [c \in Range(Ascii) |-> CHOOSE i \in DOMAIN Ascii : Ascii[i] = c]

Ord(c) == OrdTable[c]

UpperSet == Range(UpperLetters)

LowerTable ==
  [c \in UpperSet |-> LowerLetters[CHOOSE i \in DOMAIN UpperLetters : UpperLetters[i] = c]]

\* str.lower() on one character
LowerChar(c) == IF c \in UpperSet THEN LowerTable[c] ELSE c

AlnumSet == Range(LowerLetters) \cup Range(UpperLetters) \cup Range(Digits)

\* the class [a-zA-Z0-9]
IsAlnum(c) == c \in AlnumSet

\* the class \s (of the characters of the model only the blank is whitespace)
IsSpace(c) == c = " "

(***************************************************************************)
(* str methods and the two regular expressions                             *)
(***************************************************************************)
MapSeq(s, F(_)) == [i \in DOMAIN s |-> F(s[i])]

\* str.swapcase in the place of str.lower
Swapcase(s) ==
  MapSeq(s, LAMBDA c : IF c \in UpperSet THEN LowerTable[c]
                       ELSE IF \E u \in UpperSet : LowerTable[u] = c
                         THEN CHOOSE u \in UpperSet : LowerTable[u] = c
                         ELSE c)

Lower(s) == MapSeq(s, LowerChar)

\* text.replace('-', ' ').replace('_', ' ')
DashToSpaceChar(c) == IF c = "-" \/ c = "_" THEN " " ELSE c

ReplaceSeparators(s) == MapSeq(s, DashToSpaceChar)

\* index of the first c in s at or after position i, 0 when there is none
RECURSIVE IndexFrom(_, _, _)
IndexFrom(s, c, i) ==
  IF i > Len(s) THEN 0
  ELSE IF s[i] = c THEN i
  ELSE IndexFrom(s, c, i + 1)

Contains(s, c) == IndexFrom(s, c, 1) # 0

\* re.sub(r'\([^)]*\)', '', text): each leftmost "(" that has a ")" after it is
\* removed together with everything up to the first such ")"
RECURSIVE StripParensFrom(_, _)
StripParensFrom(s, i) ==
  IF i > Len(s) THEN << >>
  ELSE IF s[i] = "(" /\ IndexFrom(s, ")", i + 1) # 0
    THEN StripParensFrom(s, IndexFrom(s, ")", i + 1) + 1)
    ELSE << s[i] >> \o StripParensFrom(s, i + 1)

StripParens(s) == StripParensFrom(s, 1)

\* re.sub(r'[^a-zA-Z0-9\s]', '', text)
KeepAlnumSpace(s) == SelectSeq(s, LAMBDA c : IsAlnum(c) \/ IsSpace(c))

\* str.split(): the maximal runs of non-whitespace characters, in order
RECURSIVE SplitFrom(_, _, _)
SplitFrom(s, i, cur) ==
  IF i > Len(s) THEN (IF cur = << >> THEN << >> ELSE << cur >>)
  ELSE IF IsSpace(s[i])
    THEN (IF cur = << >> THEN << >> ELSE << cur >>) \o SplitFrom(s, i + 1, << >>)
    ELSE SplitFrom(s, i + 1, Append(cur, s[i]))

Split(s) == SplitFrom(s, 1, << >>)

\* ' '.join(words)
RECURSIVE JoinSpace(_)
JoinSpace(ws) ==
  IF ws = << >> THEN << >>
  ELSE IF Len(ws) = 1 THEN ws[1]
  ELSE ws[1] \o << " " >> \o JoinSpace(Tail(ws))

\* str.strip()
RECURSIVE LStrip(_)
LStrip(s) == IF s # << >> /\ IsSpace(s[1]) THEN LStrip(Tail(s)) ELSE s

RECURSIVE RStrip(_)
RStrip(s) ==
  IF s # << >> /\ IsSpace(s[Len(s)]) THEN RStrip(SubSeq(s, 1, Len(s) - 1)) ELSE s

Strip(s) == RStrip(LStrip(s))

\* "w in k" for two str: w occurs in k as a contiguous substring
IsSubstring(w, k) ==
  \E i \in 1..(Len(k) - Len(w) + 1) : SubSeq(k, i, i + Len(w) - 1) = w

\* str comparison a < b
RECURSIVE StrLess(_, _)
StrLess(a, b) ==
  IF b = << >> THEN FALSE
  ELSE IF a = << >> THEN TRUE
  ELSE IF a[1] # b[1] THEN Ord(a[1]) < Ord(b[1])
  ELSE StrLess(Tail(a), Tail(b))

(***************************************************************************)
(* The name normalizer, as a method and as the local copy of __getitem__   *)
(***************************************************************************)
_normalize_name(text) ==
  IF text = << >> THEN << >>
  ELSE JoinSpace(Split(KeepAlnumSpace(StripParens(ReplaceSeparators(Lower(text))))))

\* normalize_name without the removal of the parenthesized parts
NormalizeKeepingParentheses(text) ==
  JoinSpace(Split(KeepAlnumSpace(ReplaceSeparators(Lower(text)))))

normalize_name(text) ==
  JoinSpace(Split(KeepAlnumSpace(StripParens(ReplaceSeparators(Lower(text))))))

(***************************************************************************)
(* The manifest: plant records (dict objects of the JSON manifest).  An    *)
(* absent or empty image_name is the empty text: the code tests both with  *)
(* "not image_name".                                                       *)
(***************************************************************************)
Plant(image, sci) == [image_name |-> image, scientific_name |-> sci]

TxtAloeJpg == << "a","l","o","e","-","v","e","r","a","-","p","l","a","n","t",".","j","p","g" >>
TxtAloeFile == << "a","l","o","e","-","v","e","r","a","-","p","l","a","n","t" >>
TxtAloeVera == << "A","l","o","e"," ","v","e","r","a" >>
TxtXyz == << "x","y","z","1","2","3" >>
TxtUnknown == << "U","n","k","n","o","w","n"," ","s","p","e","c","i","e","s" >>
TxtNeemFile == << "n","e","e","m" >>
TxtAzadirachta == << "A","z","a","d","i","r","a","c","h","t","a"," ","i","n","d","i","c","a" >>
TxtNeemTree == << "N","e","e","m"," ","t","r","e","e" >>
TxtNeem == << "N","e","e","m" >>
TxtParen == << "A","z","a","d","i","r","a","c","h","t","a"," ","(","N","e","e","m",")" >>
TxtTreeParen == << "T","r","e","e"," ","(","T","r","e","e"," ","n","e","e","m",")" >>

RecAloeJpg == Plant(TxtAloeJpg, TxtAloeVera)
RecAloe == Plant(TxtAloeFile, TxtAloeVera)
RecUnknown == Plant(TxtXyz, TxtUnknown)
RecNoImage == Plant(<< >>, TxtAloeVera)
RecNeem == Plant(TxtNeemFile, TxtAzadirachta)
RecNeemTree == Plant(TxtNeemTree, TxtNeem)
RecParen == Plant(TxtParen, TxtNeem)
RecXyzNeem == Plant(TxtXyz, TxtNeem)
RecTreeParen == Plant(TxtTreeParen, TxtNeem)
RecNeemAgain == Plant(TxtNeemFile, TxtNeem)

(***************************************************************************)
(* The provider's catalog: the resources of the listing API.               *)
(***************************************************************************)
Resource(pid, url, tags) ==
  [public_id |-> pid, secure_url |-> url, tags |-> tags,
   keys |-> { "public_id", "secure_url", "tags" }]

PidAloe == << "D","a","t","a","s","e","t","/","a","l","o","e","-","v","e","r","a","-","p","l","a","n","t" >>
PidNeem == << "D","a","t","a","s","e","t","/","n","e","e","m" >>

URLs == { "u1", "u2" }

Resources == << Resource(PidAloe, "u1", << >>), Resource(PidNeem, "u2", << >>) >>

(***************************************************************************)
(* self._image_cache: a dict, kept as the sequence of its entries in       *)
(* insertion order (the order in which a Python dict is iterated).  A      *)
(* value is a list of URLs or, for the entries that __getitem__ stores, a  *)
(* processed (image, label) sample.                                        *)
(***************************************************************************)
NoSample == [url |-> "", aug |-> -2, label |-> -1]

UrlEntry(k, urls) == [key |-> k, kind |-> "urls", urls |-> urls, sample |-> NoSample]

SampleEntry(k, smp) == [key |-> k, kind |-> "sample", urls |-> << >>, sample |-> smp]

HasKey(cache, k) == \E i \in DOMAIN cache : cache[i].key = k

Get(cache, k) == cache[CHOOSE i \in DOMAIN cache : cache[i].key = k]

Keys(cache) == [i \in DOMAIN cache |-> cache[i].key]

\* bool(value): a non-empty list, or a tuple
Truthy(entry) == entry.kind = "sample" \/ entry.urls # << >>

\* if k not in cache: cache[k] = []
SetDefault(cache, k) == IF HasKey(cache, k) THEN cache ELSE Append(cache, UrlEntry(k, << >>))

\* cache[k] = value
Store(cache, k, entry) ==
  IF HasKey(cache, k)
    THEN [i \in DOMAIN cache |-> IF cache[i].key = k THEN entry ELSE cache[i]]
    ELSE Append(cache, entry)

\* MedicinalPlantDataset._initialize_cache
RECURSIVE _initialize_cache(_, _)
_initialize_cache(cache, plants) ==
  IF plants = << >> THEN cache
  ELSE LET plant == Head(plants)
           withImage == SetDefault(cache, _normalize_name(plant.image_name))
           withSci == IF plant.scientific_name # << >>
                        THEN SetDefault(withImage, _normalize_name(plant.scientific_name))
                        ELSE withImage
       IN _initialize_cache(IF plant.image_name # << >> THEN withSci ELSE cache,
                            Tail(plants))

\* os.path.basename
RECURSIVE Basename(_)
Basename(path) ==
  IF Contains(path, "/") THEN Basename(SubSeq(path, IndexFrom(path, "/", 1) + 1, Len(path)))
  ELSE path

\* the variations of one term: the normalized term and its words
TermVariations(text) == { _normalize_name(text) } \cup Range(Split(_normalize_name(text)))

\* NameVariations without line 251: the words of the filename, not the filename
NameVariationsWordsOnly(resource) ==
  Range(Split(_normalize_name(Basename(resource.public_id))))
    \cup UNION { TermVariations(resource.tags[i]) :
                   i \in { j \in DOMAIN resource.tags : resource.tags[j] # << >> } }

\* name_variations of a resource: from the filename and from each non-empty tag
NameVariations(resource) ==
  TermVariations(Basename(resource.public_id))
    \cup UNION { TermVariations(resource.tags[i]) :
                   i \in { j \in DOMAIN resource.tags : resource.tags[j] # << >> } }

\* A set of str in ascending order.
RECURSIVE Ascending(_)
Ascending(S) ==
  IF S = { } THEN << >>
  ELSE LET m == CHOOSE x \in S : \A y \in S \ { x } : StrLess(x, y)
       IN << m >> \o Ascending(S \ { m })

Reverse(s) == [i \in DOMAIN s |-> s[Len(s) + 1 - i]]

\* The order in which "for variation in name_variations" visits a set of str is
\* not fixed by the language (str hashes differ between runs): either order.
HashOrders == { "ascending", "descending" }

Iterate(S, order) == IF order = "ascending" THEN Ascending(S) ELSE Reverse(Ascending(S))

\* StoreVariation with every key bound to one shared list object
\* (dict.fromkeys(names, [])): an append shows under every key
StoreVariationAliased(cache, variation, url) ==
  LET clean_variation == KeepAlnumSpace(Lower(variation))
      withKey == SetDefault(cache, clean_variation)
  IN IF Len(variation) > 2 /\ clean_variation # << >>
       THEN [i \in DOMAIN withKey |->
               IF url \in Range(withKey[i].urls) THEN withKey[i]
               ELSE UrlEntry(withKey[i].key, Append(withKey[i].urls, url))]
       ELSE cache

\* StoreVariation without the test of line 295: the URL is appended every time
StoreVariationAlways(cache, variation, url) ==
  LET clean_variation == KeepAlnumSpace(Lower(variation))
      withKey == SetDefault(cache, clean_variation)
      old == Get(withKey, clean_variation)
  IN IF Len(variation) > 2 /\ clean_variation # << >>
       THEN Store(withKey, clean_variation, UrlEntry(clean_variation, Append(old.urls, url)))
       ELSE cache

\* the body of "for variation in name_variations"
StoreVariation(cache, variation, url) ==
  LET clean_variation == KeepAlnumSpace(Lower(variation))
      withKey == SetDefault(cache, clean_variation)
      old == Get(withKey, clean_variation)
  IN IF Len(variation) > 2 /\ clean_variation # << >>
       THEN IF url \in Range(old.urls) THEN withKey
            ELSE Store(withKey, clean_variation, UrlEntry(clean_variation, Append(old.urls, url)))
       ELSE cache

RECURSIVE StoreVariations(_, _, _)
StoreVariations(cache, variations, url) ==
  IF variations = << >> THEN cache
  ELSE StoreVariations(StoreVariation(cache, Head(variations), url), Tail(variations), url)

\* _prefetch_images: the resources of the listing, in listing order
RECURSIVE _prefetch_images(_, _, _)
_prefetch_images(cache, resources, order) ==
  IF resources = << >> THEN cache
  ELSE _prefetch_images(
         StoreVariations(cache, Iterate(NameVariations(Head(resources)), order),
                         Head(resources).secure_url),
         Tail(resources), order)

\* the asset index as the constructor leaves it
BuildIndex(plants, resources, order) ==
  _prefetch_images(_initialize_cache(<< >>, plants), resources, order)

\* self.unique_labels = sorted(set(scientific_names)); label_to_idx[label] is its rank
label_to_idx(plants, label) ==
  Cardinality({ n \in { plants[i].scientific_name : i \in DOMAIN plants } : StrLess(n, label) })

(***************************************************************************)
(* The resolver of __getitem__ (the four matching strategies)              *)
(***************************************************************************)
\* what matching_urls.extend(value) appends: the URLs of a list, or the two
\* members of a cached (image, label) tuple, which are no URLs
Items(entry) ==
  IF entry.kind = "urls"
    THEN [i \in DOMAIN entry.urls |-> [t |-> "url", u |-> entry.urls[i]]]
    ELSE << [t |-> "object", u |-> "image"], [t |-> "object", u |-> "label"] >>

Lookup(cache, k) == IF HasKey(cache, k) THEN Items(Get(cache, k)) ELSE << >>

\* the table name_variations, in the order of its lists
name_variations ==
  << [word |-> << "n","e","e","m" >>, variations |-> << << "a","z","a","d","i","r","a","c","h","t","a" >>, << "i","n","d","i","c","a" >> >>],
     [word |-> << "l","e","m","o","n" >>, variations |-> << << "c","i","t","r","u","s" >>, << "l","i","m","o","n" >> >>],
     [word |-> << "b","i","t","t","e","r" >>, variations |-> << << "g","a","r","c","i","n","i","a" >>, << "k","o","l","a" >> >>],
     [word |-> << "k","o","l","a" >>, variations |-> << << "g","a","r","c","i","n","i","a" >>, << "b","i","t","t","e","r" >> >>] >>

HasVariations(word) == \E i \in DOMAIN name_variations : name_variations[i].word = word

VariationsOf(word) ==
  name_variations[CHOOSE i \in DOMAIN name_variations : name_variations[i].word = word].variations

\* "for variation in name_variations[word]": the first variation that is a key
\* ends the loop, whatever its list holds
RECURSIVE FirstVariation(_, _)
FirstVariation(cache, variations) ==
  IF variations = << >> THEN << >>
  ELSE IF HasKey(cache, Head(variations)) THEN Lookup(cache, Head(variations))
  ELSE FirstVariation(cache, Tail(variations))

WordVariations(cache, word) ==
  IF HasVariations(word) THEN FirstVariation(cache, VariationsOf(word)) ELSE << >>

\* "for cache_key in self._image_cache.keys()": the first key that contains the
\* word, or that the word contains, ends the loop
RECURSIVE PartialMatch(_, _, _)
PartialMatch(cache, word, i) ==
  IF i > Len(cache) THEN << >>
  ELSE IF IsSubstring(word, cache[i].key) \/ IsSubstring(cache[i].key, word)
    THEN Items(cache[i])
    ELSE PartialMatch(cache, word, i + 1)

\* image_name.split('(')[0] and image_name.split('(')[1].split(')')[0]
BeforeParen(text) == SubSeq(text, 1, IndexFrom(text, "(", 1) - 1)

InParen(text) ==
  LET open == IndexFrom(text, "(", 1)
      next == IndexFrom(text, "(", open + 1)
      part == SubSeq(text, open + 1, IF next = 0 THEN Len(text) ELSE next - 1)
      close == IndexFrom(part, ")", 1)
  IN IF close = 0 THEN part ELSE SubSeq(part, 1, close - 1)

HasParens(text) == Contains(text, "(") /\ Contains(text, ")")

\* Strategy 1: exact match with the full name
Strategy1(cache, clean_name) == Lookup(cache, clean_name)

\* Strategy 2: the text before the parenthesis, then its first word
Strategy2(cache, scientific_name) ==
  LET clean_scientific == normalize_name(scientific_name)
      sci_parts == Split(clean_scientific)
  IN IF HasKey(cache, clean_scientific) THEN Lookup(cache, clean_scientific)
     ELSE IF sci_parts # << >> THEN Lookup(cache, sci_parts[1])
     ELSE << >>

\* Strategy 3, the loop over the words of the common name
RECURSIVE CommonWords(_, _)
CommonWords(cache, words) ==
  IF words = << >> THEN << >>
  ELSE IF HasKey(cache, Head(words)) THEN Lookup(cache, Head(words))
  ELSE IF WordVariations(cache, Head(words)) # << >> THEN WordVariations(cache, Head(words))
  ELSE CommonWords(cache, Tail(words))

Strategy3(cache, common_name) ==
  LET clean_common == normalize_name(common_name)
  IN IF HasKey(cache, clean_common) THEN Lookup(cache, clean_common)
     ELSE CommonWords(cache, Split(clean_common))

StopWords == { << "a","n","d" >>, << "t","h","e" >>, << "o","f" >>, << "o","r" >> }

\* Strategy 4, the loop over the words of the full name
RECURSIVE Strategy4(_, _)
Strategy4(cache, name_parts) ==
  IF name_parts = << >> THEN << >>
  ELSE LET word == Head(name_parts)
       IN IF Len(word) < 3 \/ word \in StopWords THEN Strategy4(cache, Tail(name_parts))
          ELSE IF HasKey(cache, word) THEN Lookup(cache, word)
          ELSE IF WordVariations(cache, word) # << >> THEN WordVariations(cache, word)
          ELSE IF Len(word) > 4 /\ PartialMatch(cache, word, 1) # << >>
            THEN PartialMatch(cache, word, 1)
          ELSE Strategy4(cache, Tail(name_parts))

\* matching_urls after strategy k has run and extended it by urls
Ran(r, k, urls) ==
  [ matching_urls |-> urls,
    consulted |-> r.consulted \cup { k },
    found |-> [r.found EXCEPT ![k] = urls # << >>] ]

NothingRun == [matching_urls |-> << >>, consulted |-> { }, found |-> [k \in 1..4 |-> FALSE]]

\* line 496
Run1(cache, clean_name) == Ran(NothingRun, 1, Strategy1(cache, clean_name))

\* line 501: if not matching_urls and scientific_name
Run2(cache, scientific_name, r) ==
  IF r.matching_urls = << >> /\ scientific_name # << >>
    THEN Ran(r, 2, Strategy2(cache, scientific_name))
    ELSE r

\* line 514: if not matching_urls and common_name
Run3(cache, common_name, r) ==
  IF r.matching_urls = << >> /\ common_name # << >>
    THEN Ran(r, 3, Strategy3(cache, common_name))
    ELSE r

\* Run4 without its guard "if not matching_urls"
Run4Unguarded(cache, name_parts, r) ==
  Ran(r, 4, r.matching_urls \o Strategy4(cache, name_parts))

\* line 538: if not matching_urls
Run4(cache, name_parts, r) ==
  IF r.matching_urls = << >> THEN Ran(r, 4, Strategy4(cache, name_parts)) ELSE r

\* lines 472-478: the local scientific_name and common_name, taken from the
\* image name ("" stands for None: both are tested for truth only)
LocalScientific(image_name) ==
  IF HasParens(image_name) THEN Lower(Strip(BeforeParen(image_name))) ELSE << >>

LocalCommon(image_name) ==
  IF HasParens(image_name) THEN Lower(Strip(InParen(image_name))) ELSE << >>

\* Lines 468-569: matching_urls, with the strategies that were run (consulted)
\* and those that extended matching_urls (found)
Resolve(cache, image_name) ==
  Run4(cache, Split(normalize_name(image_name)),
       Run3(cache, LocalCommon(image_name),
            Run2(cache, LocalScientific(image_name),
                 Run1(cache, normalize_name(image_name)))))

(***************************************************************************)
(* Bounds and inputs                                                       *)
(***************************************************************************)
\* the longest manifest drawn
MaxRecords == 2

\* the number of top-level __getitem__ calls of one behaviour
MaxCalls == 2

\* len(self.augmentation_transforms) with augment=True
NumTransforms == 4

AllManifests ==
  { << RecNeem >>, << RecAloeJpg >>, << RecXyzNeem >>,
    << RecUnknown, RecNeem >>, << RecNoImage, RecNeem >>, << RecNeem, RecNeemTree >>,
    << RecParen, RecAloe >>, << RecTreeParen >>, << RecNeem, RecNeemAgain >>,
    << RecUnknown, RecNoImage, RecNeem >>, << RecNeem, RecUnknown, RecXyzNeem >> }

Manifests == { m \in AllManifests : Len(m) <= MaxRecords }

\* What the image host answers for a URL: "ok" an image; "json" a 200 response
\* with a JSON body; "down" an HTTP error status.
NetKinds == { "ok", "json", "down" }

Nets ==
  { n \in [URLs -> NetKinds] :
      \/ n["u1"] = "ok"
      \/ n["u1"] = "down" /\ n["u2"] \in { "ok", "down" } }

(***************************************************************************)
(* State                                                                   *)
(***************************************************************************)
VARIABLES
  plant_data,     \* self.plant_data
  augment,        \* self.augment
  _image_cache,   \* self._image_cache
  net,            \* the image host
  stack,          \* the activations of __getitem__, the innermost last
  raising,        \* the exception that is propagating, "" when none is
  outcome,        \* how the last top-level call ended
  calls,          \* top-level calls made
  log,            \* what each activation of the current call did, in order
  listing,        \* the provider's catalog: what each listing request answers
  pc,             \* the constructor's position
  next_cursor,    \* next_cursor of _prefetch_images: pages fetched so far
  resources,      \* the resources of the current page not yet processed
  total_fetched,  \* total_fetched of _prefetch_images
  failure,        \* the exception the constructor raised, "" when none
  handled,        \* every resource processed so far, with what became of it
  requested,      \* every cloudinary.api.resources call made so far
  text,           \* an argument of the name normalizer
  normalized,     \* what the normalizer returned for it, once and twice
  clean_name,     \* what the local normalize_name of __getitem__ returned for it
  clean_variation, \* what the normalized text is stored as by _prefetch_images
  scientific_names, \* the scientific names of a manifest, in manifest order
  labels,         \* the label spaces built from them
  file,           \* the observations in the JSON file of the fetcher
  model,          \* the global model of main.py
  inaturalist_data,     \* the global inaturalist_data of main.py
  default_label_to_idx, \* the global default_label_to_idx of main.py
  idx_to_label,   \* the global idx_to_label of main.py
  users,          \* the rows of table User
  identifications, \* the rows of table PlantIdentification
  response        \* what the last request was answered with

\* the variables of __getitem__
itemVars == << augment, net, stack, raising, outcome, calls, log >>

\* the variables of the constructor
initVars ==
  << listing, pc, next_cursor, resources, total_fetched, failure, handled, requested >>

\* the variables of the pure functions
fnVars == << text, normalized, clean_name, clean_variation, scientific_names, labels >>

\* the variables of the fetcher and of the server
appVars ==
  << file, model, inaturalist_data, default_label_to_idx, idx_to_label, users,
     identifications, response >>

vars == << plant_data, _image_cache, itemVars, initVars, fnVars, appVars >>

N == Len(plant_data)

\* len(self.augmentation_transforms)
TransformCount == IF augment THEN NumTransforms ELSE 0

\* MedicinalPlantDataset.__len__
DatasetLen == IF augment THEN N * (TransformCount + 1) ELSE N

Frame(idx, skip_count) == [idx |-> idx, skip_count |-> skip_count, at |-> "entry"]

Idle == [status |-> "idle", sample |-> NoSample]

\* the constructor has returned: nothing of it is left to run
ConstructorDone ==
  /\ listing = << >>
  /\ pc = "ready"
  /\ next_cursor = 0
  /\ resources = << >>
  /\ total_fetched = 0
  /\ failure = ""
  /\ handled = << >>
  /\ requested = << >>

\* no pure function is being applied
FunctionsIdle ==
  /\ text = << >>
  /\ normalized = << >>
  /\ clean_name = << >>
  /\ clean_variation = << >>
  /\ scientific_names = << >>
  /\ labels = << >>

None == [class |-> "NoneType"]

\* the fetcher has not run and the server has not started
AppIdle ==
  /\ file = << >>
  /\ model = None
  /\ inaturalist_data = None
  /\ default_label_to_idx = None
  /\ idx_to_label = None
  /\ users = { }
  /\ identifications = { }
  /\ response = None

Init ==
  /\ plant_data \in Manifests
  /\ augment \in BOOLEAN
  /\ \E order \in HashOrders : _image_cache = BuildIndex(plant_data, Resources, order)
  /\ net \in Nets
  /\ stack = << >>
  /\ raising = ""
  /\ outcome = Idle
  /\ calls = 0
  /\ log = << >>
  /\ ConstructorDone
  /\ FunctionsIdle
  /\ AppIdle

(***************************************************************************)
(* __getitem__                                                             *)
(***************************************************************************)
\* str(aug_idx)
IntStr(n) == IF n < 0 THEN << "-", Digits[1 - n] >> ELSE << Digits[n + 1] >>

\* f"{image_name}_{aug_idx}"
CacheKey(image_name, aug_idx) == image_name \o << "_" >> \o IntStr(aug_idx)

\* base_idx and aug_idx of lines 410-416
BaseIdx(idx) == IF augment THEN idx \div (TransformCount + 1) ELSE idx

AugIdx(idx) == IF augment THEN (idx % (TransformCount + 1)) - 1 ELSE -1

\* next_idx = (base_idx + 1) % len(self.plant_data)
NextIdx(base_idx) == (base_idx + 1) % N

\* lines 437-447: one of the two normalized names is a key with a non-empty value
PreCheck(cache, plant) ==
  \/ /\ HasKey(cache, _normalize_name(plant.image_name))
     /\ Truthy(Get(cache, _normalize_name(plant.image_name)))
  \/ /\ HasKey(cache, _normalize_name(plant.scientific_name))
     /\ Truthy(Get(cache, _normalize_name(plant.scientific_name)))

\* "except requests.RequestException" in the place of "except Exception"
CatchesRequestErrors(exception) == exception \in { "HTTPError", "MissingSchema" }

\* "except Exception" (lines 619 and 624): the exceptions the clause catches
Catches(exception) == TRUE

\* Lines 582-617 for the first matching URL: the requests sent, the payloads
\* handed to Image.open, and the exception raised ("" when a sample came out).
\* An augmentation transform is a list of dicts (lines 87-92), and line 600
\* unpacks it with ** into cloudinary_url: that raises TypeError before the
\* transformed URL is built or requested.
Materialize(first, aug_idx) ==
  LET kind == IF first.t = "url" THEN net[first.u] ELSE "none"
      wantAug == aug_idx >= 0 /\ aug_idx < TransformCount
  IN CASE first.t # "url" ->
            [stage |-> "bad_url", exception |-> "MissingSchema",
             requests |-> << >>, decoded |-> << >>]
       [] kind = "down" ->
            [stage |-> "http_error", exception |-> "HTTPError",
             requests |-> << first.u >>, decoded |-> << >>]
       [] kind = "json" ->
            [stage |-> "decode_error", exception |-> "UnidentifiedImageError",
             requests |-> << first.u >>, decoded |-> << "json" >>]
       [] kind = "ok" /\ wantAug ->
            [stage |-> "augmentation_error", exception |-> "TypeError",
             requests |-> << first.u >>, decoded |-> << "image" >>]
       [] OTHER ->
            [stage |-> "sample", exception |-> "",
             requests |-> << first.u >>, decoded |-> << "image" >>]

\* One activation from its entry to its return or to its recursive call:
\* what it does (stage), the call site it recurses from ("" when it returns or
\* raises), the exception it raises, the value it returns and whether it stores it.
Body(cache, fr) ==
  LET base_idx == BaseIdx(fr.idx)
      aug_idx == AugIdx(fr.idx)
      plant == plant_data[base_idx + 1]
      cache_key == CacheKey(plant.image_name, aug_idx)
      res == Resolve(cache, plant.image_name)
      mat == Materialize(res.matching_urls[1], aug_idx)
      smp == [url |-> res.matching_urls[1].u, aug |-> aug_idx,
              label |-> label_to_idx(plant_data, plant.scientific_name)]
      entry == [idx |-> fr.idx, skip_count |-> fr.skip_count, base_idx |-> base_idx,
                aug_idx |-> aug_idx, stage |-> "", site |-> "", raised |-> "",
                resolved |-> FALSE,
                consulted |-> { }, found |-> [k \in 1..4 |-> FALSE], url |-> "",
                requests |-> << >>, decoded |-> << >>, sample |-> NoSample,
                stored |-> FALSE]
  IN CASE plant.image_name = << >> \/ plant.scientific_name = << >> ->
            [entry EXCEPT !.stage = "missing", !.site = "L425"]
       [] plant.image_name # << >> /\ plant.scientific_name # << >>
            /\ ~PreCheck(cache, plant) ->
            [entry EXCEPT !.stage = "no_match", !.site = "L447"]
       [] plant.image_name # << >> /\ plant.scientific_name # << >>
            /\ PreCheck(cache, plant) /\ HasKey(cache, cache_key) ->
            [entry EXCEPT !.stage = "cached", !.sample = Get(cache, cache_key).sample]
       [] OTHER ->
            IF res.matching_urls = << >>
              THEN [entry EXCEPT !.stage = "unresolved", !.site = "L580", !.resolved = TRUE,
                                 !.consulted = res.consulted, !.found = res.found]
              ELSE [entry EXCEPT !.stage = mat.stage,
                                 !.site = IF mat.exception # "" /\ Catches(mat.exception)
                                            THEN "L622" ELSE "",
                                 !.raised = IF mat.exception # "" /\ ~Catches(mat.exception)
                                              THEN mat.exception ELSE "",
                                 !.resolved = TRUE,
                                 !.consulted = res.consulted, !.found = res.found,
                                 !.url = res.matching_urls[1].u,
                                 !.requests = mat.requests, !.decoded = mat.decoded,
                                 !.sample = IF mat.exception = "" THEN smp ELSE NoSample,
                                 !.stored = (mat.exception = "")]

\* dataset[idx]: a caller asks for an item
Call ==
  /\ stack = << >>
  /\ raising = ""
  /\ calls < MaxCalls
  /\ \E idx \in 0..(DatasetLen - 1) :
       stack' = << Frame(idx, 0) >>
  /\ calls' = calls + 1
  /\ outcome' = [status |-> "running", sample |-> NoSample]
  /\ log' = << >>
  /\ UNCHANGED << plant_data, augment, _image_cache, net, raising, initVars, fnVars, appVars >>

\* lines 407-408: the activation finds skip_count >= len(self.plant_data) and raises
Exhausted ==
  /\ stack # << >>
  /\ raising = ""
  /\ stack[Len(stack)].at = "entry"
  /\ stack[Len(stack)].skip_count >= N
  /\ stack' = SubSeq(stack, 1, Len(stack) - 1)
  /\ raising' = "RuntimeError"
  /\ UNCHANGED << plant_data, augment, _image_cache, net, outcome, calls, log, initVars, fnVars, appVars >>

\* lines 410-627: the activation runs to its return or to its recursive call
Attempt ==
  /\ stack # << >>
  /\ raising = ""
  /\ stack[Len(stack)].at = "entry"
  /\ stack[Len(stack)].skip_count < N
  /\ LET fr == stack[Len(stack)]
         done == Body(_image_cache, fr)
     IN /\ log' = Append(log, done)
        /\ CASE done.raised # "" ->
                  \* no except clause of lines 619 and 624 matches
                  /\ stack' = SubSeq(stack, 1, Len(stack) - 1)
                  /\ raising' = done.raised
                  /\ UNCHANGED << outcome, _image_cache >>
             [] done.raised = "" /\ done.site = "" ->
                  \* every caller returns the value of its recursive call
                  /\ stack' = << >>
                  /\ outcome' = [status |-> "sample", sample |-> done.sample]
                  /\ _image_cache' =
                       IF done.stored
                         THEN Store(_image_cache,
                                    CacheKey(plant_data[done.base_idx + 1].image_name,
                                             done.aug_idx),
                                    SampleEntry(CacheKey(plant_data[done.base_idx + 1].image_name,
                                                         done.aug_idx), done.sample))
                         ELSE _image_cache
                  /\ UNCHANGED raising
             [] OTHER ->
                  /\ stack' = [stack EXCEPT ![Len(stack)].at = done.site]
                                \o << Frame(NextIdx(done.base_idx), fr.skip_count + 1) >>
                  /\ UNCHANGED << outcome, _image_cache, raising >>
  /\ UNCHANGED << plant_data, augment, net, calls, initVars, fnVars, appVars >>

\* An exception leaves an activation.  A call made at line 622 stands inside
\* the outer try of lines 582-627: "except Exception" at line 624 catches the
\* exception, the exhaustion RuntimeError too, and line 627 makes the same
\* recursive call again.  Every other call site lets it pass, and the top-level
\* caller receives it.
Unwind ==
  /\ raising # ""
  /\ IF stack = << >>
       THEN /\ raising' = ""
            /\ outcome' = [status |-> raising, sample |-> NoSample]
            /\ UNCHANGED stack
       ELSE LET fr == stack[Len(stack)]
            IN IF fr.at = "L622" /\ Catches(raising)
                 THEN /\ raising' = ""
                      /\ stack' = [stack EXCEPT ![Len(stack)].at = "L627"]
                                    \o << Frame(NextIdx(BaseIdx(fr.idx)), fr.skip_count + 1) >>
                      /\ UNCHANGED outcome
                 ELSE /\ stack' = SubSeq(stack, 1, Len(stack) - 1)
                      /\ UNCHANGED << raising, outcome >>
  /\ UNCHANGED << plant_data, augment, _image_cache, net, calls, log, initVars, fnVars, appVars >>

Next == Call \/ Exhausted \/ Attempt \/ Unwind

Spec == Init /\ [][Next]_vars

(***************************************************************************)
(* Properties of __getitem__                                               *)
(***************************************************************************)
LogEntries == { log[i] : i \in DOMAIN log }

PlantOf(e) == plant_data[e.base_idx + 1]

\* the key's value is a non-empty list of URLs
HoldsUrls(cache, k) == HasKey(cache, k) /\ Get(cache, k).kind = "urls" /\ Get(cache, k).urls # << >>

\* C1: whenever the record at base index b fails, the next record attempted is the
\* record at base index (b+1) mod N, with augment=False and with augment=True.
\* Every activation above the first was called for the failure of the one below
\* it; it attempts a record when its skip_count is below N.
C1_NextRecordIsSuccessor ==
  \A i \in 2..Len(stack) :
    stack[i].skip_count < N
      => BaseIdx(stack[i].idx) = (BaseIdx(stack[i - 1].idx) + 1) % N

\* a record that resolves to a URL which the host serves as an image, with every
\* transformation
ValidRecord(b) ==
  LET plant == plant_data[b + 1]
      urls == Resolve(_image_cache, plant.image_name).matching_urls
  IN /\ plant.image_name # << >>
     /\ plant.scientific_name # << >>
     /\ PreCheck(_image_cache, plant)
     /\ urls # << >>
     /\ urls[1].t = "url"
     /\ net[urls[1].u] = "ok"

\* C2: if at least one of the N records can be resolved to a URL and materialized,
\* every call returns a sample: the exhaustion error is raised only when no
\* record is valid.
C2_SampleWhenSomeRecordIsValid ==
  outcome.status = "RuntimeError" => ~ \E b \in 0..(N - 1) : ValidRecord(b)

FailureStages ==
  { "missing", "no_match", "unresolved", "bad_url", "http_error", "decode_error",
    "augmentation_error" }

\* C3: no per-record failure is surfaced to the caller: a failed record leads to
\* the recursive call, the only exception that propagates and reaches the caller
\* is the exhaustion RuntimeError, and every other outcome is an (image, label)
\* sample.
C3_OnlyExhaustionSurfaces ==
  /\ raising \in { "", "RuntimeError" }
  /\ outcome.status \in { "idle", "running", "sample", "RuntimeError" }
  /\ outcome.status = "sample"
       => outcome.sample.url \in URLs /\ outcome.sample.label \in 0..(N - 1)
  /\ \A e \in LogEntries : e.stage \in FailureStages => e.raised = "" /\ e.site # ""

\* C3, witness: a call returned a sample after a download, decode or
\* augmentation failure of an earlier record
C3_SampleAfterFailure ==
  /\ outcome.status = "sample"
  /\ \E e \in LogEntries : e.stage \in { "http_error", "decode_error", "augmentation_error" }

\* C4: at most N records are attempted for one requested index.
C4_AtMostNRecordsAttempted == Len(log) <= N

\* C5: strategy k is attempted only if every earlier strategy produced no URL, and
\* when the normalized declared image name is a key holding at least one URL the
\* chosen URL is the first URL of that key and strategies 2 to 4 are not consulted.
C5_StrategiesInPriorityOrder ==
  \A e \in LogEntries :
    e.resolved =>
      /\ \A k \in e.consulted : \A j \in 1..(k - 1) : ~e.found[j]
      /\ HoldsUrls(_image_cache, normalize_name(PlantOf(e).image_name))
           => /\ e.consulted = { 1 }
              /\ e.url = Get(_image_cache, normalize_name(PlantOf(e).image_name)).urls[1]

\* C5, witness: a record was resolved by strategy 1 and its URL requested
C5_ResolvedByStrategy1 ==
  \E e \in LogEntries : e.resolved /\ e.found[1] /\ e.requests # << >>

\* C6: when strategy 1 finds nothing, a record whose normalized scientific_name is
\* a key with URLs resolves to that key's first URL.
C6_ScientificNameResolves ==
  \A e \in LogEntries :
    ( /\ e.resolved
      /\ ~e.found[1]
      /\ HoldsUrls(_image_cache, normalize_name(PlantOf(e).scientific_name)) )
      => e.url = Get(_image_cache, normalize_name(PlantOf(e).scientific_name)).urls[1]

TxtAloeKey == << "a","l","o","e"," ","v","e","r","a"," ","p","l","a","n","t" >>

\* C7: the record {scientific_name: "Aloe vera", image_name: "aloe-vera-plant.jpg"}
\* is resolved through strategy 1 to the first URL of the key "aloe vera plant".
C7_ExtensionNameResolves ==
  \A e \in LogEntries :
    (PlantOf(e) = RecAloeJpg /\ HoldsUrls(_image_cache, TxtAloeKey))
      => e.found[1] /\ e.url = Get(_image_cache, TxtAloeKey).urls[1]

\* the terms of a record: its two normalized names and their words
Terms(plant) ==
  { t \in TermVariations(plant.image_name) \cup TermVariations(plant.scientific_name) :
      t # << >> }

\* the terms under which the assets of the catalog are indexed
IndexedTerms ==
  UNION { { KeepAlnumSpace(Lower(v)) : v \in { w \in NameVariations(Resources[i]) : Len(w) > 2 } } :
            i \in DOMAIN Resources }

\* no term of the record equals, contains or is contained in an indexed term
NoTermMatches(plant) ==
  \A t \in Terms(plant) : \A k \in IndexedTerms :
    t # k /\ ~IsSubstring(t, k) /\ ~IsSubstring(k, t)

\* the records of the manifests for which no term matches
UnmatchedRecords ==
  Range(SelectSeq(<< RecAloeJpg, RecAloe, RecUnknown, RecNoImage, RecNeem, RecNeemTree,
                     RecParen, RecXyzNeem, RecTreeParen, RecNeemAgain >>,
                  NoTermMatches))

\* C8: for a record for which no term matches anywhere in the index, resolution
\* yields no URL without raising, and no download request is issued for it.
C8_NoMatchNoRequest ==
  \A e \in LogEntries :
    PlantOf(e) \in UnmatchedRecords
      => /\ e.url = ""
         /\ e.requests = << >>
         /\ e.raised = ""
         /\ e.stage \in { "missing", "no_match", "unresolved" }

\* C8, witness: a record with an image name and no matching term was skipped
C8_UnmatchedRecordSkipped ==
  \E e \in LogEntries :
    PlantOf(e).image_name # << >> /\ PlantOf(e) \in UnmatchedRecords /\ e.stage = "no_match"

\* C9: a 200 response whose body is JSON is rejected before any decode is
\* attempted and never reaches the image decoder.
C9_NonImageNeverDecoded ==
  \A e \in LogEntries : "json" \notin Range(e.decoded)

\* C10: after the constructor returns, the asset index (the _image_cache
\* dictionary) is never changed by any sequence of __getitem__ calls.
C10_IndexNeverChanges == [][_image_cache' = _image_cache]_vars


(***************************************************************************)
(* The constructor: what it is given                                       *)
(***************************************************************************)
\* the most pages a catalog drawn has
MaxPages == 2

\* a listing entry that lacks one of its keys
WithoutKey(resource, k) == [resource EXCEPT !.keys = @ \ { k }]

PidNeemTree == << "D","a","t","a","s","e","t","/","n","e","e","m","_","t","r","e","e" >>
PidBo == << "D","a","t","a","s","e","t","/","b","o" >>
TxtBo == << "B","o" >>

AssetAloe == Resource(PidAloe, "u1", << >>)
AssetNeem == Resource(PidNeem, "u2", << >>)
AssetNeemTree == Resource(PidNeemTree, "u3", << >>)
AssetBo == Resource(PidBo, "u4", << >>)
AssetTagged == Resource(PidBo, "u5", << TxtNeemTree, << >> >>)
AssetNoId == WithoutKey(Resource(<< >>, "u6", << >>), "public_id")

\* what one cloudinary.api.resources call answers: a result dict, or an exception
ApiResult(rs) == [ok |-> TRUE, resources |-> rs]
ApiError == [ok |-> FALSE, resources |-> << >>]

\* One page of the catalog: the answer to the request with prefix 'Dataset/'
\* and the answer to the request without a prefix.
Page(folder, root) == [folder |-> folder, root |-> root]
Found(rs) == Page(ApiResult(rs), ApiResult(<< >>))
Down == Page(ApiError, ApiError)

AllPagings ==
  { << Found(<< AssetAloe, AssetNeem >>) >>,
    << Found(<< AssetNeemTree, AssetNeem >>) >>,
    << Found(<< AssetTagged >>) >>,
    << Found(<< AssetNoId >>) >>,
    << Found(<< AssetBo >>) >>,
    << Down >>,
    << Page(ApiResult(<< >>), ApiResult(<< >>)) >>,
    << Page(ApiResult(<< >>), ApiResult(<< AssetNeem >>)) >>,
    << Page(ApiResult(<< >>), ApiError) >>,
    << Found(<< AssetNeem >>), Found(<< AssetNeemTree, AssetNeem, AssetAloe >>) >>,
    << Found(<< AssetNeem >>), Down >>,
    << Found(<< AssetNoId, AssetNeem >>), Found(<< AssetAloe >>) >>,
    << Found(<< AssetNeem >>), Page(ApiResult(<< >>), ApiResult(<< >>)) >>,
    << Found(<< AssetNeemTree >>), Found(<< AssetNoId, AssetNeem >>),
       Found(<< AssetAloe, AssetNeem >>) >>,
    << Found(<< AssetNeem >>), Found(<< AssetAloe >>), Down >> }

\* the catalogs drawn: whether cloudinary.api.ping answers, and the pages
Listings ==
  { [ping |-> TRUE, pages |-> ps] : ps \in { q \in AllPagings : Len(q) <= MaxPages } }
    \cup { [ping |-> FALSE, pages |-> << Found(<< AssetNeem >>) >>] }

RecBo == Plant(TxtBo, TxtNeem)
RecNoSci == Plant(TxtNeemFile, << >>)

\* the manifests the constructor is given
ConstructorManifests ==
  Manifests \cup { << >>, << RecBo >>, << RecNoSci >>, << RecNeem, RecBo >> }

(***************************************************************************)
(* The constructor: __init__, _verify_plant_data, _initialize_cache,       *)
(* _verify_cloudinary_config and _prefetch_images                          *)
(***************************************************************************)
\* _verify_plant_data that only logs what it finds
_verify_plant_data_logged(plants) == TRUE

\* _verify_plant_data: no record lacks its scientific name
_verify_plant_data(plants) == \A i \in DOMAIN plants : plants[i].scientific_name # << >>

\* total_fetched += 1 for every append of the loop of lines 279-304
RECURSIVE Fetched(_, _, _)
Fetched(cache, variations, url) ==
  IF variations = << >> THEN 0
  ELSE (IF StoreVariation(cache, Head(variations), url) # cache THEN 1 ELSE 0)
         + Fetched(StoreVariation(cache, Head(variations), url), Tail(variations), url)

\* the try block of lines 238-307 for one resource: resource['public_id'] raises
\* KeyError for an entry without the key, and the clause of line 305 drops the entry
ProcessResource(cache, resource, order) ==
  IF "public_id" \notin resource.keys
    THEN [cache |-> cache, fetched |-> 0, skipped |-> TRUE]
    ELSE [cache |-> StoreVariations(cache, Iterate(NameVariations(resource), order),
                                    resource.secure_url),
          fetched |-> Fetched(cache, Iterate(NameVariations(resource), order),
                              resource.secure_url),
          skipped |-> FALSE]

\* total_urls of line 336
RECURSIVE TotalUrls(_)
TotalUrls(cache) ==
  IF cache = << >> THEN 0
  ELSE (IF Head(cache).kind = "urls" THEN Len(Head(cache).urls) ELSE 1) + TotalUrls(Tail(cache))

\* the constructor raises
Raise(exception) ==
  /\ pc' = "failed"
  /\ failure' = exception

ConstructorInit ==
  /\ plant_data \in ConstructorManifests
  /\ listing \in Listings
  /\ _image_cache = << >>
  /\ pc = "__init__"
  /\ next_cursor = 0
  /\ resources = << >>
  /\ total_fetched = 0
  /\ failure = ""
  /\ handled = << >>
  /\ requested = << >>
  /\ augment = TRUE
  /\ net = [u \in URLs |-> "ok"]
  /\ stack = << >>
  /\ raising = ""
  /\ outcome = Idle
  /\ calls = 0
  /\ log = << >>
  /\ FunctionsIdle
  /\ AppIdle

\* lines 55-72: the manifest is checked and the cache is seeded
Construct ==
  /\ pc = "__init__"
  /\ IF plant_data = << >> \/ ~_verify_plant_data(plant_data)
       THEN /\ Raise("ValueError")
            /\ UNCHANGED _image_cache
       ELSE /\ _image_cache' = _initialize_cache(_image_cache, plant_data)
            /\ pc' = "_prefetch_images"
            /\ UNCHANGED failure
  /\ UNCHANGED << plant_data, itemVars, fnVars, appVars, listing, next_cursor, resources,
                  total_fetched, handled, requested >>

\* lines 145-159 and 164: the provider is pinged, outside the try of line 199
VerifyConfig ==
  /\ pc = "_prefetch_images"
  /\ IF listing.ping
       THEN /\ pc' = "list"
            /\ UNCHANGED failure
       ELSE Raise("RuntimeError")
  /\ UNCHANGED << plant_data, _image_cache, itemVars, fnVars, appVars, listing, next_cursor,
                  resources, total_fetched, handled, requested >>

\* lines 203-219: the result of the request with the prefix, or, when that
\* has no resources, of the request without it
Listed(page) ==
  IF page.folder.ok /\ page.folder.resources = << >> THEN page.root ELSE page.folder

\* the calls of lines 203-219, each with the cursor it passes (0 is None)
Requests(page, cursor) ==
  << [prefix |-> "Dataset/", next_cursor |-> cursor] >>
    \o (IF page.folder.ok /\ page.folder.resources = << >>
          THEN << [prefix |-> "", next_cursor |-> cursor] >>
          ELSE << >>)

\* result.get('next_cursor') of the p-th page: the provider names a cursor
\* while a page follows, and none (0) with the last page
ReturnedCursor(pages, p) == IF p < Len(pages) THEN p ELSE 0

\* "except Exception: pass" in the place of lines 226-228
Swallowed(result) == FALSE

\* lines 226-228: an exception of a request is logged and raised again
Reraised(result) == ~result.ok

\* lines 200-235: one page is requested.  An exception of either request is
\* raised again at line 228 and leaves _prefetch_images as the RuntimeError of
\* line 368; so does the RuntimeError of line 235 for an empty first page.
ListResources ==
  /\ pc = "list"
  /\ LET result == Listed(listing.pages[next_cursor + 1])
     IN IF Reraised(result) \/ (result.resources = << >> /\ next_cursor = 0)
          THEN /\ Raise("RuntimeError")
               /\ UNCHANGED resources
          ELSE /\ resources' = result.resources
               /\ pc' = "page"
               /\ UNCHANGED failure
  /\ requested' = requested \o Requests(listing.pages[next_cursor + 1], next_cursor)
  /\ UNCHANGED << plant_data, _image_cache, itemVars, fnVars, appVars, listing, next_cursor,
                  total_fetched, handled >>

\* "break" in the place of "continue" at line 307: an entry that raised ends the page
Break(rs) ==
  IF "public_id" \notin Head(rs).keys THEN << >> ELSE Tail(rs)

\* the for loop of line 237 goes on with the next resource, after an entry
\* that raised too ("continue", line 307)
Continue(rs) == Tail(rs)

\* lines 237-307: the next resource of the page
IndexResource ==
  /\ pc = "page"
  /\ resources # << >>
  /\ \E order \in HashOrders :
       LET done == ProcessResource(_image_cache, Head(resources), order)
       IN /\ _image_cache' = done.cache
          /\ total_fetched' = total_fetched + done.fetched
          /\ handled' = Append(handled, [resource |-> Head(resources),
                                         skipped |-> done.skipped])
  /\ resources' = Continue(resources)
  /\ UNCHANGED << plant_data, itemVars, fnVars, appVars, listing, pc, next_cursor, failure,
                  requested >>

\* "break" after the first page, whatever cursor it returned
StopsAfterFirstPage(cursor) == TRUE

\* lines 311-312: "if not next_cursor: break"
StopsPaging(cursor) == cursor = 0

\* lines 309-332: the page is done; the loop goes on while the result names a
\* next cursor
NextPage ==
  /\ pc = "page"
  /\ resources = << >>
  /\ next_cursor' = ReturnedCursor(listing.pages, next_cursor + 1)
  /\ pc' = IF StopsPaging(ReturnedCursor(listing.pages, next_cursor + 1))
             THEN "validate" ELSE "list"
  /\ UNCHANGED << plant_data, _image_cache, itemVars, fnVars, appVars, listing, resources,
                  total_fetched, failure, handled, requested >>

\* lines 357-362 with the test of total_terms alone
InvalidWithoutTerms(fetched, total_urls, total_terms) == total_terms = 0

\* lines 357-362: the three tests of the cache state
Invalid(fetched, total_urls, total_terms) ==
  fetched = 0 \/ total_urls = 0 \/ total_terms = 0

\* lines 334-368, then lines 76-96 of __init__: the cache is validated and the
\* constructor returns
Validate ==
  /\ pc = "validate"
  /\ IF Invalid(total_fetched, TotalUrls(_image_cache), Len(_image_cache))
       THEN Raise("RuntimeError")
       ELSE /\ pc' = "ready"
            /\ UNCHANGED failure
  /\ UNCHANGED << plant_data, _image_cache, itemVars, fnVars, appVars, listing, next_cursor,
                  resources, total_fetched, handled, requested >>

ConstructorNext ==
  Construct \/ VerifyConfig \/ ListResources \/ IndexResource \/ NextPage \/ Validate

ConstructorSpec == ConstructorInit /\ [][ConstructorNext]_vars

(***************************************************************************)
(* Properties of the constructor                                           *)
(***************************************************************************)
\* C11: in every state after index construction has started, every key of the
\* asset index is a non-empty normalized term of length greater than 2.
C11_KeysAreNormalizedTerms ==
  \A i \in DOMAIN _image_cache :
    /\ _image_cache[i].key # << >>
    /\ Len(_image_cache[i].key) > 2
    /\ _normalize_name(_image_cache[i].key) = _image_cache[i].key

\* the resources indexed so far (not dropped by the clause of line 305), in order
Indexed == SelectSeq(handled, LAMBDA h : ~h.skipped)

\* the keys under which _prefetch_images stores the URL of a resource
KeysOf(resource) ==
  { KeepAlnumSpace(Lower(v)) : v \in { w \in NameVariations(resource) : Len(w) > 2 } }
    \ { << >> }

\* when the URL u was discovered for the key k: the position of the first
\* indexed resource that has the URL and the key
Discovered(k, u) ==
  CHOOSE i \in DOMAIN Indexed :
    /\ Indexed[i].resource.secure_url = u /\ k \in KeysOf(Indexed[i].resource)
    /\ \A j \in 1..(i - 1) :
         ~(Indexed[j].resource.secure_url = u /\ k \in KeysOf(Indexed[j].resource))

\* C12: no key's URL list holds the same URL twice, the URLs of a key stand in
\* the order of their discovery, and processing an asset a second time leaves
\* the index unchanged and counts no URL.
C12_UrlsOnceInDiscoveryOrder ==
  /\ \A e \in DOMAIN _image_cache :
       LET urls == _image_cache[e].urls
           k == _image_cache[e].key
       IN /\ \A i, j \in DOMAIN urls : i # j => urls[i] # urls[j]
          /\ \A i \in DOMAIN urls :
               \E h \in DOMAIN Indexed :
                 Indexed[h].resource.secure_url = urls[i] /\ k \in KeysOf(Indexed[h].resource)
          /\ \A i, j \in DOMAIN urls : i < j => Discovered(k, urls[i]) < Discovered(k, urls[j])
  /\ \A h \in DOMAIN handled : \A order \in HashOrders :
       /\ ProcessResource(_image_cache, handled[h].resource, order).cache = _image_cache
       /\ ProcessResource(_image_cache, handled[h].resource, order).fetched = 0

\* an asset was indexed twice and some key holds two URLs
C12_AssetListedTwice ==
  /\ \E i, j \in DOMAIN Indexed : i < j /\ Indexed[i].resource = Indexed[j].resource
  /\ \E e \in DOMAIN _image_cache : Len(_image_cache[e].urls) >= 2

\* clean_filename of line 250
FilenameKey(resource) == _normalize_name(Basename(resource.public_id))

\* C13 as the specification states it: in the index built from a list of
\* assets, the URL list found under the normalized filename of each asset
\* starts with that asset's own URL.
C13_OwnUrlFirst ==
  pc = "ready" =>
    \A h \in DOMAIN Indexed :
      /\ HasKey(_image_cache, FilenameKey(Indexed[h].resource))
      /\ Get(_image_cache, FilenameKey(Indexed[h].resource)).urls # << >>
      /\ Get(_image_cache, FilenameKey(Indexed[h].resource)).urls[1]
           = Indexed[h].resource.secure_url

\* C13: the URL list found under the normalized filename of an asset holds
\* that asset's own URL when the normalized filename is longer than 2 characters;
\* the URL is the first of the list when no asset listed before it has the
\* term among its variations.
C13_OwnUrlListed ==
  \A h \in DOMAIN Indexed :
    LET k == FilenameKey(Indexed[h].resource)
        u == Indexed[h].resource.secure_url
    IN Len(k) > 2 =>
         /\ HasKey(_image_cache, k)
         /\ u \in Range(Get(_image_cache, k).urls)
         /\ (\A j \in 1..(h - 1) :
               k \in KeysOf(Indexed[j].resource) => Indexed[j].resource.secure_url = u)
              => Get(_image_cache, k).urls[1] = u

\* a dataset was built from assets of which two have the filename of one as a term
C13_FilenameSharedAsTerm ==
  /\ pc = "ready"
  /\ \E h \in DOMAIN Indexed :
       /\ Len(FilenameKey(Indexed[h].resource)) > 2
       /\ Len(Get(_image_cache, FilenameKey(Indexed[h].resource)).urls) >= 2
       /\ Get(_image_cache, FilenameKey(Indexed[h].resource)).urls[1]
            = Indexed[h].resource.secure_url

\* a request for the page fails
FailedRequest(page) == ~Listed(page).ok

\* C14: when the listing request of a page fails, construction fails with an
\* error: no page is processed after a failed request, and no dataset exists
\* whose catalog has a page that could not be listed.
C14_ListingFailureIsFatal ==
  /\ pc = "page" => \A p \in 1..(next_cursor + 1) : ~FailedRequest(listing.pages[p])
  /\ pc \in { "validate", "ready" } =>
       \A p \in DOMAIN listing.pages : ~FailedRequest(listing.pages[p])

\* the request of a later page failed after resources of an earlier page
\* were indexed, and the constructor raised
C14_LaterPageFailed ==
  /\ pc = "failed"
  /\ failure = "RuntimeError"
  /\ Indexed # << >>
  /\ total_fetched > 0
  /\ \E p \in DOMAIN listing.pages : p > 1 /\ FailedRequest(listing.pages[p])

\* the resources of all pages, as the requests answer them, in order
RECURSIVE AllListed(_)
AllListed(pages) ==
  IF pages = << >> THEN << >>
  ELSE Listed(Head(pages)).resources \o AllListed(Tail(pages))

\* C15: an error while processing one asset (a listing entry without
\* public_id) skips that asset only: every other asset of the page and of the
\* later pages is indexed, and the constructor does not raise because of it
\* (it raises for a failed request, or when nothing at all was indexed).
C15_AssetErrorSkipsOnlyTheAsset ==
  /\ pc \in { "validate", "ready" } =>
       [h \in DOMAIN handled |-> handled[h].resource] = AllListed(listing.pages)
  /\ \A h \in DOMAIN handled :
       /\ handled[h].skipped <=> "public_id" \notin handled[h].resource.keys
       /\ ~handled[h].skipped =>
            \A k \in KeysOf(handled[h].resource) :
              /\ HasKey(_image_cache, k)
              /\ handled[h].resource.secure_url \in Range(Get(_image_cache, k).urls)
  /\ (pc = "failed" /\ \E h \in DOMAIN handled : handled[h].skipped) =>
       \/ \E p \in DOMAIN listing.pages : FailedRequest(listing.pages[p])
       \/ total_fetched = 0

\* a dataset was built from a catalog with an entry without public_id, and an
\* asset listed after that entry is in its index
C15_EntryWithoutIdSkipped ==
  /\ pc = "ready"
  /\ \E h, j \in DOMAIN handled :
       /\ h < j
       /\ handled[h].skipped
       /\ ~handled[j].skipped
       /\ \E e \in DOMAIN _image_cache :
            handled[j].resource.secure_url \in Range(_image_cache[e].urls)

\* C16: construction fails when paging completes with no URL inserted, no URL
\* cached or no term; so the index of every dataset that was constructed has a
\* key that holds a URL.
C16_ConstructedIndexHoldsUrl ==
  pc = "ready" =>
    /\ total_fetched > 0
    /\ TotalUrls(_image_cache) > 0
    /\ Len(_image_cache) > 0
    /\ \E e \in DOMAIN _image_cache : _image_cache[e].urls # << >>

\* every page was listed and processed, no URL was inserted, and the
\* constructor raised
C16_PagingEndedWithoutUrl ==
  /\ pc = "failed"
  /\ failure = "RuntimeError"
  /\ handled # << >>
  /\ [h \in DOMAIN handled |-> handled[h].resource] = AllListed(listing.pages)
  /\ \A p \in DOMAIN listing.pages : ~FailedRequest(listing.pages[p])
  /\ total_fetched = 0

(***************************************************************************)
(* The name normalizer applied to arbitrary text                           *)
(***************************************************************************)
\* the longest text drawn
MaxTextLen == 5

\* the characters the texts are made of: a lower-case and an upper-case
\* letter, whitespace, a separator, the parentheses and a special character
TextAlphabet == { "a", "B", " ", "-", "(", ")", "." }

Texts == UNION { [1..n -> TextAlphabet] : n \in 0..MaxTextLen }

\* no dataset is under construction or in use
NoDataset ==
  /\ plant_data = << >>
  /\ _image_cache = << >>
  /\ augment = TRUE
  /\ net = [u \in URLs |-> "ok"]
  /\ stack = << >>
  /\ raising = ""
  /\ outcome = Idle
  /\ calls = 0
  /\ log = << >>
  /\ listing = << >>
  /\ pc = "none"
  /\ next_cursor = 0
  /\ resources = << >>
  /\ total_fetched = 0
  /\ failure = ""
  /\ handled = << >>
  /\ requested = << >>

NormalizeInit ==
  /\ NoDataset
  /\ AppIdle
  /\ text \in Texts
  /\ normalized = << >>
  /\ clean_name = << >>
  /\ clean_variation = << >>
  /\ scientific_names = << >>
  /\ labels = << >>

\* self._normalize_name(text)
Normalize ==
  /\ normalized = << >>
  /\ normalized' = << _normalize_name(text) >>
  /\ UNCHANGED << plant_data, _image_cache, itemVars, initVars, appVars, text, clean_name,
                  clean_variation, scientific_names, labels >>

\* self._normalize_name applied to what it returned
NormalizeAgain ==
  /\ Len(normalized) = 1
  /\ normalized' = Append(normalized, _normalize_name(normalized[1]))
  /\ UNCHANGED << plant_data, _image_cache, itemVars, initVars, appVars, text, clean_name,
                  clean_variation, scientific_names, labels >>

\* normalize_name(text), the local function of __getitem__ (lines 454-466)
NormalizeLocally ==
  /\ Len(normalized) = 2
  /\ clean_name = << >>
  /\ clean_name' = << normalize_name(text) >>
  /\ UNCHANGED << plant_data, _image_cache, itemVars, initVars, appVars, text, normalized,
                  clean_variation, scientific_names, labels >>

\* re.sub(r'[^a-zA-Z0-9\s]', '', variation.lower()) of line 282
Cleaned(variation) == KeepAlnumSpace(Lower(variation))

\* line 282 applied to what the normalizer returned
CleanVariation ==
  /\ clean_name # << >>
  /\ clean_variation = << >>
  /\ clean_variation' = << Cleaned(normalized[1]) >>
  /\ UNCHANGED << plant_data, _image_cache, itemVars, initVars, appVars, text, normalized,
                  clean_name, scientific_names, labels >>

NormalizeNext == Normalize \/ NormalizeAgain \/ NormalizeLocally \/ CleanVariation

NormalizeSpec == NormalizeInit /\ [][NormalizeNext]_vars

\* C17: the name normalizer is idempotent: normalizing what it returned
\* returns the same text, also for unbalanced and nested parentheses.
C17_NormalizerIdempotent ==
  Len(normalized) = 2 => normalized[2] = normalized[1]

\* a text with nested parentheses that does not normalize to the empty text
\* was normalized twice
C17_NestedParenthesesNormalizedTwice ==
  /\ Len(normalized) = 2
  /\ normalized[1] # << >>
  /\ \E i, j, k \in DOMAIN text :
       i < j /\ j < k /\ text[i] = "(" /\ text[j] = "(" /\ text[k] = ")"

\* the position of the ")" that closes the "(" before position i, where depth
\* parentheses are open; 0 when the parenthesis is never closed
RECURSIVE ClosedAt(_, _, _)
ClosedAt(s, i, depth) ==
  IF i > Len(s) THEN 0
  ELSE IF s[i] = "(" THEN ClosedAt(s, i + 1, depth + 1)
  ELSE IF s[i] = ")" THEN (IF depth = 1 THEN i ELSE ClosedAt(s, i + 1, depth - 1))
  ELSE ClosedAt(s, i + 1, depth)

\* position i stands inside a parenthesized part: after a "(" that is closed
\* behind it
InsideParentheses(s, i) ==
  \E j \in 1..(i - 1) : s[j] = "(" /\ ClosedAt(s, j + 1, 1) > i

\* the text without the content of its parenthesized parts: the parentheses
\* stay, what stands between a "(" and the ")" that closes it is left out
RECURSIVE WithoutContentFrom(_, _)
WithoutContentFrom(s, i) ==
  IF i > Len(s) THEN << >>
  ELSE IF InsideParentheses(s, i) /\ s[i] \notin { "(", ")" }
    THEN WithoutContentFrom(s, i + 1)
    ELSE << s[i] >> \o WithoutContentFrom(s, i + 1)

WithoutContent(s) == WithoutContentFrom(s, 1)

\* lower-case letters, digits and single spaces, none of them first or last
CleanTerm(out) ==
  /\ \A i \in DOMAIN out : out[i] \in Range(LowerLetters) \cup Range(Digits) \cup { " " }
  /\ out # << >> => out[1] # " " /\ out[Len(out)] # " "
  /\ \A i \in 1..(Len(out) - 1) : ~(out[i] = " " /\ out[i + 1] = " ")

\* C18: what the normalizer returns consists of lower-case letters, digits and
\* single spaces, with no space first or last and no parenthesis, and nothing
\* that stands inside a parenthesized part of the text is in it: the text
\* normalizes to the same term when the content of its parenthesized parts
\* is taken out.
C18_OutputIsCleanTerm ==
  Len(normalized) >= 1 =>
    /\ CleanTerm(normalized[1])
    /\ normalized[1] = _normalize_name(WithoutContent(text))

(***************************************************************************)
(* The label space: lines 76-84 of MedicinalPlantDataset.__init__ and      *)
(* lines 77-80 of load_model_once                                          *)
(***************************************************************************)
\* the most names a manifest drawn has
MaxNames == 3

TxtNeemLower == << "n","e","e","m"," " >>

NameLists ==
  UNION { [1..n -> { TxtNeem, TxtNeemLower, TxtAloeVera, TxtAzadirachta }] : n \in 1..MaxNames }

\* list(dict.fromkeys(names)): the distinct names in the order of the list
RECURSIVE Unsorted(_)
Unsorted(names) ==
  IF names = << >> THEN << >>
  ELSE LET rest == Unsorted(SubSeq(names, 1, Len(names) - 1))
       IN IF names[Len(names)] \in Range(rest) THEN rest ELSE Append(rest, names[Len(names)])

\* sorted(set(names))
Sorted(names) == Ascending(Range(names))

\* {label: idx for idx, label in enumerate(unique_labels)}
Enumerate(unique_labels) ==
  [label \in Range(unique_labels) |->
     (CHOOSE i \in DOMAIN unique_labels : unique_labels[i] = label) - 1]

\* {idx: label for label, idx in label_to_idx.items()}
Inverted(map) ==
  [idx \in { map[label] : label \in DOMAIN map } |->
     CHOOSE label \in DOMAIN map : map[label] = idx]

\* lines 82-84 of __init__: the label space of the training dataset
TrainingLabels(names) ==
  [builder |-> "__init__",
   names |-> names,
   unique_labels |-> Sorted(names),
   label_to_idx |-> Enumerate(Sorted(names)),
   idx_to_label |-> Inverted(Enumerate(Sorted(names)))]

\* lines 77-80 of load_model_once: the names are lower-cased and stripped first
ServingLabels(names) ==
  [builder |-> "load_model_once",
   names |-> names,
   unique_labels |-> Sorted([i \in DOMAIN names |-> Strip(Lower(names[i]))]),
   label_to_idx |-> Enumerate(Sorted([i \in DOMAIN names |-> Strip(Lower(names[i]))])),
   idx_to_label |-> Inverted(Enumerate(Sorted([i \in DOMAIN names |-> Strip(Lower(names[i]))])))]

\* the same records in another order
Reordered(names, p) == [i \in DOMAIN names |-> names[p[i]]]

LabelInit ==
  /\ NoDataset
  /\ AppIdle
  /\ text = << >>
  /\ normalized = << >>
  /\ clean_name = << >>
  /\ clean_variation = << >>
  /\ scientific_names \in NameLists
  /\ labels = << >>

\* The orders in which a builder is given the records: the first label space
\* is built from the manifest as it stands, the second from the same records
\* in any order.
Orders ==
  IF labels = << >> THEN { scientific_names }
  ELSE { Reordered(scientific_names, p) : p \in Permutations(DOMAIN scientific_names) }

\* MedicinalPlantDataset(plant_data): lines 76-84
CreateLabels ==
  /\ Len(labels) < 2
  /\ \E names \in Orders : labels' = Append(labels, TrainingLabels(names))
  /\ UNCHANGED << plant_data, _image_cache, itemVars, initVars, appVars, text, normalized,
                  clean_name, clean_variation, scientific_names >>

\* load_model_once(): lines 77-80 of main.py
LoadLabels ==
  /\ Len(labels) < 2
  /\ \E names \in Orders : labels' = Append(labels, ServingLabels(names))
  /\ UNCHANGED << plant_data, _image_cache, itemVars, initVars, appVars, text, normalized,
                  clean_name, clean_variation, scientific_names >>

LabelNext == CreateLabels \/ LoadLabels

LabelSpec == LabelInit /\ [][LabelNext]_vars

\* the names a label space is keyed by, as its builder reads them
KeysRead(L) ==
  IF L.builder = "__init__" THEN Range(L.names)
  ELSE { Strip(Lower(L.names[i])) : i \in DOMAIN L.names }

\* C19: the label space gives each distinct scientific name its rank in the
\* sorted set of the distinct names: label_to_idx is a bijection onto [0, N),
\* idx_to_label is its inverse, and the same records in any order give the
\* same index assignments.
C19_LabelsAreRanks ==
  /\ \A b \in DOMAIN labels :
       LET L == labels[b]
           count == Cardinality(KeysRead(L))
       IN /\ DOMAIN L.label_to_idx = KeysRead(L)
          /\ \A n \in KeysRead(L) :
               /\ L.label_to_idx[n] = Cardinality({ m \in KeysRead(L) : StrLess(m, n) })
               /\ L.idx_to_label[L.label_to_idx[n]] = n
               /\ L.builder = "__init__" =>
                    label_to_idx([i \in DOMAIN L.names |-> Plant(<< >>, L.names[i])], n)
                      = L.label_to_idx[n]
          /\ { L.label_to_idx[n] : n \in KeysRead(L) } = 0..(count - 1)
          /\ \A n, m \in KeysRead(L) : L.label_to_idx[n] = L.label_to_idx[m] => n = m
          /\ DOMAIN L.idx_to_label = 0..(count - 1)
  /\ \A a, b \in DOMAIN labels :
       labels[a].builder = labels[b].builder =>
         /\ labels[a].label_to_idx = labels[b].label_to_idx
         /\ labels[a].idx_to_label = labels[b].idx_to_label

\* a label space of two or more names was built twice, from the records in
\* two orders
C19_BuiltFromTwoOrders ==
  \E a, b \in DOMAIN labels :
    /\ a # b
    /\ labels[a].builder = labels[b].builder
    /\ labels[a].names # labels[b].names
    /\ Cardinality(KeysRead(labels[a])) >= 2

\* C20: the label space of the training dataset is keyed by the lower-cased,
\* trimmed scientific name: records whose names differ only in letter case or
\* in surrounding whitespace have the same label index.
C20_TrainingLabelsIgnoreCase ==
  \A b \in DOMAIN labels :
    labels[b].builder = "__init__" =>
      \A i, j \in DOMAIN labels[b].names :
        Strip(Lower(labels[b].names[i])) = Strip(Lower(labels[b].names[j]))
          => labels[b].label_to_idx[labels[b].names[i]]
               = labels[b].label_to_idx[labels[b].names[j]]

\* the record list is empty, a record lacks its scientific name, or the
\* provider is not configured or does not answer
BadConfiguration ==
  \/ plant_data = << >>
  \/ \E i \in DOMAIN plant_data : plant_data[i].scientific_name = << >>
  \/ ~listing.ping

\* C21: with an empty record list, a record without scientific name or a
\* provider that is not configured or not reachable, construction fails before
\* a catalog page is requested and before an index entry is made from remote
\* data.
C21_ConfigurationErrorsFailFirst ==
  BadConfiguration =>
    /\ pc \in { "__init__", "_prefetch_images", "failed" }
    /\ pc = "failed" => failure \in { "ValueError", "RuntimeError" }
    /\ requested = << >>
    /\ handled = << >>
    /\ total_fetched = 0
    /\ \A e \in DOMAIN _image_cache : _image_cache[e].urls = << >>

\* the constructor raised for a provider that does not answer, after the
\* cache was seeded from the manifest
C21_ProviderUnreachable ==
  /\ pc = "failed"
  /\ failure = "RuntimeError"
  /\ ~listing.ping
  /\ _image_cache # << >>


(***************************************************************************)
(* fetch_inaturalist_data.py: the JSON file of observations                *)
(***************************************************************************)
MaxObservationId == 3

\* the longest list of observations: in the file at first, and in one save
MaxObservations == 2

\* the longest file
MaxFile == 4

\* the images kept for one species
ImagesPerSpecies == 20

Front(s) == SubSeq(s, 1, Len(s) - 1)

Last(s) == s[Len(s)]

\* the observation ids the provider hands out
ObservationIds == 1..MaxObservationId

ImageUrls == { "https://inat/1.jpg", "inat/1.jpg" }

\* entry['image_url'].startswith('http')
StartsWithHttp(image_url) == image_url = "https://inat/1.jpg"

RequiredKeys == { "scientific_name", "image_url", "observation_id" }

\* what a fetch returns: every key is set
Observations ==
  [observation_id : ObservationIds, scientific_name : { TxtNeem, TxtNeemLower, TxtAloeVera },
   image_url : { "https://inat/1.jpg" }, keys : { RequiredKeys }]

\* what the file may hold: an entry written by hand may lack a key or carry
\* another kind of URL
Entries ==
  [observation_id : ObservationIds, scientific_name : { TxtNeem, TxtAloeVera },
   image_url : ImageUrls, keys : { RequiredKeys, RequiredKeys \ { "image_url" } }]

\* the observation ids are pairwise distinct
Unique(observations) ==
  \A i, j \in DOMAIN observations :
    observations[i].observation_id = observations[j].observation_id => i = j

Files ==
  { f \in UNION { [1..n -> Entries] : n \in 0..MaxObservations } : Unique(f) }

ObservationLists == UNION { [1..n -> Observations] : n \in 0..MaxObservations }

Valid(entry) ==
  /\ RequiredKeys \subseteq entry.keys
  /\ StartsWithHttp(entry.image_url)

\* load_existing_json(json_path); readable is whether the file opens and parses
load_existing_json(data, readable) ==
  IF readable THEN SelectSeq(data, Valid) ELSE << >>

\* species_count.get(species, 0)
CountOf(species_count, species) ==
  IF species \in DOMAIN species_count THEN species_count[species] ELSE 0

\* species_count[species] = species_count.get(species, 0) + 1
Counted(species_count, species) ==
  [s \in DOMAIN species_count \cup { species } |->
     IF s = species THEN CountOf(species_count, species) + 1 ELSE species_count[s]]

RECURSIVE CountSpecies(_)
CountSpecies(existing_observations) ==
  IF existing_observations = << >> THEN << >>
  ELSE Counted(CountSpecies(Front(existing_observations)),
               Strip(Lower(Last(existing_observations).scientific_name)))

\* the loop over observations: the observations to append, and the exception
\* that ended the loop, "" when none did
RECURSIVE Filter(_, _, _, _)
Filter(observations, existing_ids, species_count, unique) ==
  IF observations = << >> THEN [unique |-> unique, raised |-> ""]
  ELSE LET obs == Head(observations)
           sci_name == Strip(Lower(obs.scientific_name))
       IN  IF CountOf(species_count, sci_name) >= ImagesPerSpecies
           THEN Filter(Tail(observations), existing_ids, species_count, unique)
           ELSE IF obs.observation_id \notin existing_ids
           THEN Filter(Tail(observations), existing_ids,
                       Counted(species_count, sci_name), Append(unique, obs))
           ELSE IF sci_name \notin DOMAIN species_count
           THEN [unique |-> unique, raised |-> "KeyError"]
           ELSE Filter(Tail(observations), existing_ids, species_count, unique)

IdsOf(observations) == { observations[i].observation_id : i \in DOMAIN observations }

\* what save_to_json leaves in the file
Saved(data, observations, readable, writable) ==
  LET existing_observations == load_existing_json(data, readable)
      filtered == Filter(observations, IdsOf(existing_observations),
                         CountSpecies(existing_observations), << >>)
  IN  IF filtered.raised # "" \/ ~writable THEN data
      ELSE existing_observations \o filtered.unique

SaveInit ==
  /\ NoDataset
  /\ FunctionsIdle
  /\ file \in Files
  /\ model = None
  /\ inaturalist_data = None
  /\ default_label_to_idx = None
  /\ idx_to_label = None
  /\ users = { }
  /\ identifications = { }
  /\ response = None

\* save_to_json(observations, json_path)
save_to_json ==
  \E observations \in ObservationLists, readable, writable \in BOOLEAN :
    /\ Len(file) + Len(observations) <= MaxFile
    /\ file' = Saved(file, observations, readable, writable)
    /\ UNCHANGED << plant_data, _image_cache, itemVars, initVars, fnVars, model,
                    inaturalist_data, default_label_to_idx, idx_to_label, users,
                    identifications, response >>

SaveNext == save_to_json

SaveSpec == SaveInit /\ [][SaveNext]_vars

\* C22: save_to_json ensures uniqueness: the observation ids in the file are
\* pairwise distinct before the first save and stay pairwise distinct after
\* every save, whatever list of new observations is saved.
C22_IdsStayDistinct == Unique(file)


(***************************************************************************)
(* Strategies 3 and 4 of the resolver                                      *)
(***************************************************************************)
\* the keys strategy 3 tries for the words of a common name, in order: each
\* word, then the entries of the synonym table for it
RECURSIVE CommonCandidates(_)
CommonCandidates(words) ==
  IF words = << >> THEN << >>
  ELSE << Head(words) >>
         \o (IF HasVariations(Head(words)) THEN VariationsOf(Head(words)) ELSE << >>)
         \o CommonCandidates(Tail(words))

\* the first of the candidates that is a key of the index
FirstKeyFound(candidates) ==
  candidates[CHOOSE i \in DOMAIN candidates :
               /\ HasKey(_image_cache, candidates[i])
               /\ \A j \in 1..(i - 1) : ~HasKey(_image_cache, candidates[j])]

\* the key that strategy 3 is said to take the URL from
CommonKey(image_name) ==
  LET clean_common == normalize_name(LocalCommon(image_name))
  IN IF HasKey(_image_cache, clean_common) THEN clean_common
     ELSE FirstKeyFound(CommonCandidates(Split(clean_common)))

HasCommonKey(image_name) ==
  LET clean_common == normalize_name(LocalCommon(image_name))
  IN \/ HasKey(_image_cache, clean_common)
     \/ \E k \in Range(CommonCandidates(Split(clean_common))) : HasKey(_image_cache, k)

\* C23: when strategies 1 and 2 find nothing and the image name holds a common
\* name in parentheses, the record resolves to the first URL of the key of the
\* normalized common name; when that key is absent, to the first URL of the
\* first key found among the words of the common name, each tried as a key
\* and then through its synonyms in table order.
C23_CommonNameResolves ==
  \A e \in LogEntries :
    ( /\ e.resolved
      /\ ~e.found[1] /\ ~e.found[2]
      /\ LocalCommon(PlantOf(e).image_name) # << >>
      /\ HasCommonKey(PlantOf(e).image_name) )
      => /\ e.found[3]
         /\ HoldsUrls(_image_cache, CommonKey(PlantOf(e).image_name))
         /\ e.url = Get(_image_cache, CommonKey(PlantOf(e).image_name)).urls[1]


\* the words strategy 4 considers
Considered(name_parts) ==
  SelectSeq(name_parts, LAMBDA word : Len(word) >= 3 /\ word \notin StopWords)

\* the first key of the index, in the order of the index, that contains the word
ContainingKeys(word) ==
  { i \in DOMAIN _image_cache : IsSubstring(word, _image_cache[i].key) }

FirstContaining(word) ==
  _image_cache[CHOOSE i \in ContainingKeys(word) : \A j \in ContainingKeys(word) : i <= j].key

\* the word is a key, or is long enough for the containment test and some key
\* contains it
WordHasKey(word) ==
  \/ HasKey(_image_cache, word)
  \/ Len(word) > 4 /\ ContainingKeys(word) # { }

WordKey(word) == IF HasKey(_image_cache, word) THEN word ELSE FirstContaining(word)

\* the key that strategy 4 is said to take the URL from: that of the first
\* considered word that has one
FirstWordKey(words) ==
  WordKey(words[CHOOSE i \in DOMAIN words :
                  WordHasKey(words[i]) /\ \A j \in 1..(i - 1) : ~WordHasKey(words[j])])

\* C24: when strategies 1 to 3 find nothing, strategy 4 takes the URL from the
\* first word of the normalized image name, among the words of length at
\* least 3 that are no stopwords, that is a key of the index or, being longer
\* than 4 characters and no key, is contained in a key: the word's own key,
\* else the first key that contains the word, supplies the URL.
C24_WordResolves ==
  \A e \in LogEntries :
    LET words == Considered(Split(normalize_name(PlantOf(e).image_name)))
    IN ( /\ e.resolved
         /\ ~e.found[1] /\ ~e.found[2] /\ ~e.found[3]
         /\ \E i \in DOMAIN words : WordHasKey(words[i]) )
         => /\ e.found[4]
            /\ HoldsUrls(_image_cache, FirstWordKey(words))
            /\ e.url = Get(_image_cache, FirstWordKey(words)).urls[1]


(***************************************************************************)
(* Paging of the catalog                                                   *)
(***************************************************************************)
\* The constructor runs to its end: __init__ is one call, nothing suspends it
\* between two of its steps, so every step is weakly fair.  For Construct and
\* IndexResource the weak fairness is written out, with the condition under
\* which the step can be taken in the place of ENABLED.
ConstructorFairSpec ==
  /\ ConstructorSpec
  /\ WF_vars(VerifyConfig)
  /\ WF_vars(ListResources)
  /\ WF_vars(NextPage)
  /\ WF_vars(Validate)
  /\ ([]<>(pc # "__init__") \/ []<><<Construct>>_vars)
  /\ ([]<>(pc # "page" \/ resources = << >>) \/ []<><<IndexResource>>_vars)

\* the requests with the prefix 'Dataset/': one for every page asked for
FolderRequests == SelectSeq(requested, LAMBDA r : r.prefix = "Dataset/")

\* the cursor every request made so far was given: none for the first page,
\* then the cursor the page before returned; the request without the prefix
\* repeats the cursor of the request before it
CursorsPassedOn ==
  /\ \A k \in DOMAIN FolderRequests :
       FolderRequests[k].next_cursor =
         IF k = 1 THEN 0 ELSE ReturnedCursor(listing.pages, k - 1)
  /\ \A r \in DOMAIN requested :
       requested[r].prefix = "" =>
         /\ r > 1
         /\ requested[r - 1].prefix = "Dataset/"
         /\ requested[r - 1].next_cursor = requested[r].next_cursor

\* a page is asked for only after the page before it returned a cursor
AskedOnlyWithCursor ==
  \A k \in 1..(Len(FolderRequests) - 1) : ReturnedCursor(listing.pages, k) # 0

\* when the loop is left without an exception, the last page asked for
\* returned no cursor and the resources of every page were processed
LeftAtLastPage ==
  pc \in { "validate", "ready" } =>
    /\ FolderRequests # << >>
    /\ ReturnedCursor(listing.pages, Len(FolderRequests)) = 0
    /\ [h \in DOMAIN handled |-> handled[h].resource]
         = AllListed(SubSeq(listing.pages, 1, Len(FolderRequests)))

Returned == pc \in { "ready", "failed" }

\* C25: the pages of the catalog are requested one after another, each request
\* passing the cursor the page before returned; the resources of every page
\* received are processed; the requests stop exactly when a page returns no
\* cursor; and, the chain of cursors being finite, the constructor returns.
C25_PagesFollowTheCursor ==
  /\ [](CursorsPassedOn /\ AskedOnlyWithCursor /\ LeftAtLastPage)
  /\ <>Returned

\* a dataset was built from a catalog of several pages, each requested with
\* the cursor of the page before
C25_SeveralPagesListed ==
  /\ pc = "ready"
  /\ Len(listing.pages) > 1
  /\ Len(FolderRequests) = Len(listing.pages)
  /\ \E r \in DOMAIN requested : requested[r].next_cursor > 0


(***************************************************************************)
(* The augmentation index                                                  *)
(***************************************************************************)
\* the pairs (base record, variant) of the dataset indices
Pairs == { << BaseIdx(idx), AugIdx(idx) + 1 >> : idx \in 0..(DatasetLen - 1) }

\* C26: with augmentation and K transforms the length is N*(K+1) and a
\* requested idx stands for record idx div (K+1) in [0, N) and variant
\* idx mod (K+1) in 0..K, one pair for each idx; variant 0 is the image as
\* downloaded and variant v > 0 is the image after transform v-1.  Without
\* augmentation the length is N and idx stands for record idx, not augmented.
C26_VariantIsApplied ==
  /\ DatasetLen = IF augment THEN N * (NumTransforms + 1) ELSE N
  /\ Pairs = (0..(N - 1)) \X (0..TransformCount)
  /\ \A e \in LogEntries :
       e.skip_count = 0 =>
         /\ e.base_idx = IF augment THEN e.idx \div (NumTransforms + 1) ELSE e.idx
         /\ e.aug_idx + 1 = IF augment THEN e.idx % (NumTransforms + 1) ELSE 0
         /\ e.decoded = << "image" >> =>
              /\ e.stage = "sample"
              /\ e.sample.aug = e.aug_idx


(***************************************************************************)
(* The two normalizers                                                     *)
(***************************************************************************)
\* C27: the index is built and the records are resolved with the same
\* normalization: for every non-empty text the local normalize_name of
\* __getitem__ returns what _normalize_name returns, and the cleaning applied
\* to a variation before it is stored as a key leaves what the normalizer
\* returned unchanged.
C27_NormalizedAlike ==
  /\ (text # << >> /\ clean_name # << >>) => clean_name[1] = normalized[1]
  /\ clean_variation # << >> => clean_variation[1] = normalized[1]

\* a text with upper-case letters, a separator and a parenthesized part was
\* normalized by both functions and cleaned, and did not come out empty
C27_MixedTextNormalizedByBoth ==
  /\ clean_name # << >>
  /\ clean_variation # << >>
  /\ normalized[1] # << >>
  /\ \E i, j \in DOMAIN text : i < j /\ text[i] = "(" /\ text[j] = ")"
  /\ \E i \in DOMAIN text : text[i] = "B"


(***************************************************************************)
(* The label of a sample                                                   *)
(***************************************************************************)
\* C28: every sample that __getitem__ returns, freshly made or taken from the
\* sample cache, carries the label of the scientific name of the record it
\* was returned for, also when two records share an image name.
C28_SampleCarriesLabelOfItsRecord ==
  \A e \in LogEntries :
    e.stage \in { "sample", "cached" } =>
      e.sample.label = label_to_idx(plant_data, PlantOf(e).scientific_name)


(***************************************************************************)
(* main.py: the lazily loaded model and the request handlers               *)
(***************************************************************************)
\* the longest table of identifications
MaxIdentifications == 2

Emails == { "a@x", "b@x" }

Passwords == { "p", "q" }

\* Where load_model_once fails, "" when it does not: the data file cannot be
\* read, an entry has no scientific name, PlantClassifier raises, the model
\* file is missing, torch.load raises, load_state_dict raises.
Faults == { "", "open", "names", "classifier", "missing", "load", "state_dict" }

\* a checkpoint file: whether it holds 'model_state_dict' and 'label_to_idx'
Checkpoints == [model_state_dict : BOOLEAN, label_to_idx : BOOLEAN]

Dict(of) == [class |-> "dict", of |-> of]

Classifier(weights, mapping) ==
  [class |-> "PlantClassifier", weights |-> weights, label_to_idx |-> mapping]

\* the steps of load_model_once a fault lets through, in the order of the code
Step == [open |-> 1, names |-> 2, classifier |-> 3, missing |-> 4, load |-> 5, state_dict |-> 6]

Passes(fault, step) == fault = "" \/ Step[fault] > Step[step]

\* lines 83-94: the global model as the try block leaves it
LoadedModel(fault, checkpoint) ==
  IF ~Passes(fault, "classifier") THEN None
  ELSE IF ~Passes(fault, "state_dict") THEN Classifier("initial", "default")
  ELSE Classifier(IF checkpoint.model_state_dict THEN "trained" ELSE "initial",
                  IF checkpoint.label_to_idx THEN "checkpoint" ELSE "default")

\* lines 80 and 92: the global idx_to_label as the try block leaves it
LoadedIdxToLabel(fault, checkpoint) ==
  IF ~Passes(fault, "names") THEN None
  ELSE IF Passes(fault, "state_dict") /\ checkpoint.label_to_idx THEN Dict("checkpoint")
  ELSE Dict("default")

\* what a request is answered with: the status the handler raised itself
\* (0 when it raised none) and the status the client receives
Response(handler, raised, status_code, detail) ==
  [class |-> "Response", handler |-> handler, raised |-> raised,
   status_code |-> status_code, detail |-> detail]

\* "except Exception as e: raise HTTPException(status_code=500, ...)": an
\* HTTPException raised inside the try block is an Exception too
ExceptException(status_code) == 500

ApiInit ==
  /\ NoDataset
  /\ FunctionsIdle
  /\ file = << >>
  /\ model = None
  /\ inaturalist_data = None
  /\ default_label_to_idx = None
  /\ idx_to_label = None
  /\ users = { }
  /\ identifications = { }
  /\ response = None

\* the other variables of the module
restVars == << plant_data, _image_cache, itemVars, initVars, fnVars, file >>

modelVars == << model, inaturalist_data, default_label_to_idx, idx_to_label >>

UnusedIds == (1..MaxIdentifications) \ { row.id : row \in identifications }

\* load_model_once(), lines 70-100, when model is None
LoadModel(fault, checkpoint) ==
  /\ model' = LoadedModel(fault, checkpoint)
  /\ inaturalist_data' = IF Passes(fault, "open") THEN [class |-> "list"] ELSE inaturalist_data
  /\ default_label_to_idx' =
       IF Passes(fault, "names") THEN Dict("default") ELSE default_label_to_idx
  /\ idx_to_label' =
       IF Passes(fault, "names") THEN LoadedIdxToLabel(fault, checkpoint) ELSE idx_to_label

\* POST /api/identify, lines 150-263: load_model_once, the prediction, and the
\* new row; ending is how the part after load_model_once ends
identify_plant ==
  \E current_user \in users, fault \in Faults, checkpoint \in Checkpoints,
     ending \in { "success", "ValueError", "Exception" } :
    /\ IF model = None THEN LoadModel(fault, checkpoint) ELSE UNCHANGED modelVars
    /\ IF model = None /\ fault # ""
         THEN /\ response' = Response("identify_plant", 500, ExceptException(500),
                                      "Error initializing model")
              /\ UNCHANGED identifications
         ELSE CASE ending = "ValueError" ->
                     /\ response' = Response("identify_plant", 400, 400, "Prediction error")
                     /\ UNCHANGED identifications
                [] ending = "Exception" \/ UnusedIds = { } ->
                     /\ response' = Response("identify_plant", 0, 500, "")
                     /\ UNCHANGED identifications
                [] OTHER ->
                     /\ identifications' = identifications \cup
                          { [id |-> CHOOSE n \in UnusedIds : \A m \in UnusedIds : n <= m,
                             user_id |-> current_user.email, is_favorite |-> FALSE] }
                     /\ response' = Response("identify_plant", 0, 200, "success")
    /\ UNCHANGED << restVars, users >>

\* POST /api/auth/login, lines 322-346
login ==
  \E username \in Emails, password \in Passwords :
    /\ response' =
         IF [email |-> username, hashed_password |-> password] \notin users
           THEN Response("login", 401, ExceptException(401), "Incorrect email or password")
           ELSE Response("login", 0, 200, "")
    /\ UNCHANGED << restVars, modelVars, users, identifications >>

\* POST /api/auth/signup, lines 348-377
signup ==
  \E email \in Emails, password, confirm_password \in Passwords :
    /\ IF \E user \in users : user.email = email
         THEN /\ response' = Response("signup", 400, ExceptException(400),
                                      "Email already registered")
              /\ UNCHANGED users
         ELSE IF password # confirm_password
         THEN /\ response' = Response("signup", 400, ExceptException(400),
                                      "Passwords do not match")
              /\ UNCHANGED users
         ELSE /\ users' = users \cup { [email |-> email, hashed_password |-> password] }
              /\ response' = Response("signup", 0, 200, "User created successfully")
    /\ UNCHANGED << restVars, modelVars, identifications >>

\* the row the two handlers select: the identification with this id of this user
Selected(identification_id, current_user) ==
  { row \in identifications :
      row.id = identification_id /\ row.user_id = current_user.email }

\* DELETE /api/user/identifications/{identification_id}, lines 480-504
delete_identification ==
  \E identification_id \in 1..MaxIdentifications, current_user \in users :
    /\ IF Selected(identification_id, current_user) = { }
         THEN /\ response' = Response("delete_identification", 404, ExceptException(404),
                                      "Identification not found")
              /\ UNCHANGED identifications
         ELSE /\ identifications' =
                   identifications \ Selected(identification_id, current_user)
              /\ response' = Response("delete_identification", 0, 200, "")
    /\ UNCHANGED << restVars, modelVars, users >>

\* POST /api/user/identifications/{identification_id}/favorite, lines 538-563
toggle_favorite ==
  \E identification_id \in 1..MaxIdentifications, current_user \in users :
    /\ IF Selected(identification_id, current_user) = { }
         THEN /\ response' = Response("toggle_favorite", 404, ExceptException(404),
                                      "Identification not found")
              /\ UNCHANGED identifications
         ELSE /\ identifications' =
                   { IF row \in Selected(identification_id, current_user)
                       THEN [row EXCEPT !.is_favorite = ~row.is_favorite] ELSE row :
                     row \in identifications }
              /\ response' = Response("toggle_favorite", 0, 200, "")
    /\ UNCHANGED << restVars, modelVars, users >>

ApiNext == identify_plant \/ login \/ signup \/ delete_identification \/ toggle_favorite

ApiSpec == ApiInit /\ [][ApiNext]_vars

C30_ClientErrorReachesClient ==
  (response # None /\ response.raised \in { 400, 401, 404 }) =>
    response.status_code = response.raised

=============================================================================
